---- MODULE Spec2Model ----
(***************************************************************************)
(* Model of vocab.py: the vocabulary.com pronunciation audio downloader.   *)
(*                                                                         *)
(* Text is a sequence of characters, each character a string.  A           *)
(* character outside ASCII is written by its code point ("U+00E9" is the   *)
(* letter e with acute accent).  A filesystem path is a sequence of        *)
(* segments, each segment a text.  File content is a sequence of bytes.    *)
(***************************************************************************)
EXTENDS Integers, Sequences, FiniteSets, TLC

(* ------------------------------ bounds --------------------------------- *)

\* longest query enumerated exhaustively by SpecFile
MaxQueryLen == 4
\* longest page body enumerated exhaustively by SpecToken
MaxBodyLen == 6
\* most body fragments concatenated by SpecToken
MaxChunks == 3
\* number of path segments of the output directory
Depth == 2

(* --------------------------- character classes ------------------------- *)

Upper ==
  {"A", "B", "C", "D", "E", "F", "G", "H", "I", "J", "K", "L", "M",
   "N", "O", "P", "Q", "R", "S", "T", "U", "V", "W", "X", "Y", "Z"}

Lower ==
  {"a", "b", "c", "d", "e", "f", "g", "h", "i", "j", "k", "l", "m",
   "n", "o", "p", "q", "r", "s", "t", "u", "v", "w", "x", "y", "z"}

Digit ==
  {"0", "1", "2", "3", "4", "5", "6", "7", "8", "9"}

\* letters outside ASCII that occur in the modelled inputs
NonAsciiLetter ==
  {"U+00E9"}

\* str.isalnum() of one character: Python 3 str patterns are Unicode
IsAlnum(c) ==
  c \in Upper \cup Lower \cup Digit \cup NonAsciiLetter

\* the class \w of a str pattern: alphanumeric or underscore
IsWord(c) ==
  IsAlnum(c) \/ c = "_"

\* the class \s of a str pattern
IsSpace(c) ==
  c \in {" ", "\t"}

\* the class of the pattern r'[^\w\s.-]', which lets dots through
IsSpecial_DotAllowed(c) ==
  ~ IsWord(c) /\ ~ IsSpace(c) /\ c \notin {"-", "."}

\* the class [^\w\s-] of the first re.sub
IsSpecial(c) ==
  ~ IsWord(c) /\ ~ IsSpace(c) /\ c # "-"

\* the class [-\s] of the second re.sub
IsSeparator(c) ==
  c = "-" \/ IsSpace(c)

\* the class [A-Z] of the token pattern
IsTokenHead(c) ==
  c \in Upper

\* the class [A-Z0-9] of the token pattern
IsTokenTail(c) ==
  c \in Upper \cup Digit

(* ------------------------------ text helpers --------------------------- *)

\* the absent value: get_audio_token returns None, and `not token' holds of
\* None and of the empty string alike
None == << >>

RECURSIVE LStrip(_)
LStrip(s) ==
  IF s # << >> /\ IsSpace(Head(s)) THEN LStrip(Tail(s)) ELSE s

RECURSIVE RStrip(_)
RStrip(s) ==
  IF s # << >> /\ IsSpace(s[Len(s)]) THEN RStrip(SubSeq(s, 1, Len(s) - 1)) ELSE s

\* str.strip()
Strip(s) ==
  RStrip(LStrip(s))

\* re.sub(r'[^\w\s-]', '', s): every match is one character, replaced by ''
RECURSIVE SubSpecial(_)
SubSpecial(s) ==
  IF s = << >> THEN << >>
  ELSE IF IsSpecial(Head(s)) THEN SubSpecial(Tail(s))
  ELSE <<Head(s)>> \o SubSpecial(Tail(s))

\* the match of the pattern r'[-\s]', without the +: one separator at a time
SeparatorRun_One(s) ==
  IF s # << >> /\ IsSeparator(Head(s)) THEN 1 ELSE 0

\* length of the longest prefix of s made of separators: the greedy [-\s]+
RECURSIVE SeparatorRun(_)
SeparatorRun(s) ==
  IF s # << >> /\ IsSeparator(Head(s)) THEN 1 + SeparatorRun(Tail(s)) ELSE 0

\* re.sub(r'[-\s]+', '_', s): scanning left to right, each greedy match is
\* replaced by one underscore and the scan resumes after it
RECURSIVE SubSeparators(_)
SubSeparators(s) ==
  IF s = << >> THEN << >>
  ELSE IF IsSeparator(Head(s))
       THEN <<"_">> \o SubSeparators(SubSeq(s, SeparatorRun(s) + 1, Len(s)))
       ELSE <<Head(s)>> \o SubSeparators(Tail(s))

\* safe_filename of download_audio
SafeFilename(q) ==
  SubSeparators(SubSpecial(Strip(q)))

Mp3Suffix == <<".", "m", "p", "3">>

\* filename of download_audio: f"{safe_filename}.mp3"
Filename(q) ==
  SafeFilename(q) \o Mp3Suffix

(* ------------------------- the token pattern ---------------------------- *)

\* length of the longest run of [A-Z0-9] of s that starts at position i
RECURSIVE TokenTailRun(_, _)
TokenTailRun(s, i) ==
  IF i <= Len(s) /\ IsTokenTail(s[i]) THEN 1 + TokenTailRun(s, i + 1) ELSE 0

\* group 1 of a match of r'"([A-Z]/[A-Z0-9]+)"' that starts at position i of
\* s, or None: the + is greedy and gives characters back until the closing
\* quote matches
MatchAt(s, i) ==
  IF i + 2 <= Len(s) /\ s[i] = "\"" /\ IsTokenHead(s[i + 1]) /\ s[i + 2] = "/"
  THEN LET run == TokenTailRun(s, i + 3)
           ks  == {k \in 1..run : i + 3 + k <= Len(s) /\ s[i + 3 + k] = "\""}
       IN  IF ks = {} THEN None
           ELSE SubSeq(s, i + 1, i + 2 + (CHOOSE k \in ks : \A l \in ks : l <= k))
  ELSE None

\* a search that keeps the last match at or after position i, as a loop over
\* re.finditer that overwrites its result would
SearchFrom_Last(s, i) ==
  LET starts == {j \in i..Len(s) : MatchAt(s, j) # None}
  IN  IF starts = {} THEN None
      ELSE MatchAt(s, CHOOSE j \in starts : \A k \in starts : k <= j)

\* re.search tries the start positions from left to right
RECURSIVE SearchFrom(_, _)
SearchFrom(s, i) ==
  IF i > Len(s) THEN None
  ELSE IF MatchAt(s, i) # None THEN MatchAt(s, i)
  ELSE SearchFrom(s, i + 1)

\* match.group(1) of re.search(pattern, response.text), None without a match
ReSearch(s) ==
  SearchFrom(s, 1)

(* ------------------------------- URLs ----------------------------------- *)

\* urllib.parse.quote of one character with the default safe='/': letters,
\* digits and _.-~/ are kept, every other character becomes the %XX of each
\* of its UTF-8 bytes
QuoteChar(c) ==
  IF c \in Upper \cup Lower \cup Digit \cup {"_", ".", "-", "~", "/"} THEN <<c>>
  ELSE CASE c = " "      -> <<"%", "2", "0">>
         [] c = "\t"     -> <<"%", "0", "9">>
         [] c = "!"      -> <<"%", "2", "1">>
         [] c = ","      -> <<"%", "2", "C">>
         [] c = "?"      -> <<"%", "3", "F">>
         [] c = "\\"     -> <<"%", "5", "C">>
         [] c = "U+00E9" -> <<"%", "C", "3", "%", "A", "9">>

RECURSIVE Quote(_)
Quote(s) ==
  IF s = << >> THEN << >> ELSE QuoteChar(Head(s)) \o Quote(Tail(s))

\* url of get_audio_token
PageUrl(q) ==
  <<"https://www.vocabulary.com/dictionary/">> \o Quote(Strip(q))

\* quote(token, safe='') of one character: the slash is encoded too
QuoteCharNoSafe(c) ==
  IF c = "/" THEN <<"%", "2", "F">> ELSE <<c>>

RECURSIVE QuoteNoSafe(_)
QuoteNoSafe(s) ==
  IF s = << >> THEN << >> ELSE QuoteCharNoSafe(Head(s)) \o QuoteNoSafe(Tail(s))

\* an audio URL with the token percent-encoded
AudioUrl_Quoted(t) ==
  <<"https://audio.vocabulary.com/1.0/us/">> \o QuoteNoSafe(t) \o Mp3Suffix

\* audio_url of download_audio
AudioUrl(t) ==
  <<"https://audio.vocabulary.com/1.0/us/">> \o t \o Mp3Suffix

(* ------------------------------- paths ---------------------------------- *)

\* the segments of a relative path text: pathlib splits at '/' and drops
\* empty and '.' segments, keeping '..'
RECURSIVE Segments(_, _)
Segments(s, cur) ==
  LET done == IF cur = << >> \/ cur = <<".">> THEN << >> ELSE <<cur>>
  IN  IF s = << >> THEN done
      ELSE IF Head(s) = "/" THEN done \o Segments(Tail(s), << >>)
      ELSE Segments(Tail(s), Append(cur, Head(s)))

\* Path(output_dir) / filename: an absolute right operand replaces the left
PathJoin(dir, name) ==
  IF name # << >> /\ Head(name) = "/"
  THEN <<(<<"/">>)>> \o Segments(name, << >>)
  ELSE dir \o Segments(name, << >>)

\* output_path.parent
Parent(p) ==
  IF p = << >> THEN << >> ELSE SubSeq(p, 1, Len(p) - 1)

\* a path and all its ancestors, the working directory << >> included
Ancestors(p) ==
  {SubSeq(p, 1, n) : n \in 0..Len(p)}

(* ------------------------------- inputs --------------------------------- *)

\* all texts over the alphabet S of length at most n
TextsUpTo(S, n) ==
  UNION {[1..k -> S] : k \in 0..n}

\* command lines of the main flow: "machine learning", "cafe, mon ami!" with
\* e acute, "Capricorn", "../etc/passwd", "a_b", " well-being ", "..\x", "!?"
Queries ==
  { <<"m", "a", "c", "h", "i", "n", "e", " ", "l", "e", "a", "r", "n", "i", "n", "g">>,
    <<"c", "a", "f", "U+00E9", ",", " ", "m", "o", "n", " ", "a", "m", "i", "!">>,
    <<"C", "a", "p", "r", "i", "c", "o", "r", "n">>,
    <<".", ".", "/", "e", "t", "c", "/", "p", "a", "s", "s", "w", "d">>,
    <<"a", "_", "b">>,
    <<" ", "w", "e", "l", "l", "-", "b", "e", "i", "n", "g", " ">>,
    <<".", ".", "\\", "x">>,
    <<"!", "?">> }

\* the characters of the exhaustively enumerated queries: a letter, a digit,
\* a letter outside ASCII, and the characters the two substitutions and the
\* path join treat specially
QueryChars ==
  {"a", "7", "U+00E9", "_", " ", "-", ".", "/"}

BoundedQueries ==
  TextsUpTo(QueryChars, MaxQueryLen)

\* <p data-audio="C/BNUT8S5S2HDK">
BodyOneToken ==
  <<"<", "p", " ", "d", "a", "t", "a", "-", "a", "u", "d", "i", "o", "=", "\"",
    "C", "/", "B", "N", "U", "T", "8", "S", "5", "S", "2", "H", "D", "K", "\"", ">">>

\* <a id="C/BNUT8S5S2HDK"><b id="D/XY12">
BodyTwoTokens ==
  <<"<", "a", " ", "i", "d", "=", "\"", "C", "/", "B", "N", "U", "T", "8", "S",
    "5", "S", "2", "H", "D", "K", "\"", ">", "<", "b", " ", "i", "d", "=", "\"",
    "D", "/", "X", "Y", "1", "2", "\"", ">">>

\* <html>no audio here "c/abc" "AB/12"</html>
BodyNoToken ==
  <<"<", "h", "t", "m", "l", ">", "n", "o", " ", "a", "u", "d", "i", "o", " ",
    "h", "e", "r", "e", " ", "\"", "c", "/", "a", "b", "c", "\"", " ", "\"", "A",
    "B", "/", "1", "2", "\"", "<", "/", "h", "t", "m", "l", ">">>

\* page bodies of the main flow
Bodies ==
  {BodyOneToken, BodyTwoTokens, BodyNoToken, << >>}

\* the characters of the exhaustively enumerated bodies
BodyChars ==
  {"\"", "A", "/", "7", "a"}

\* fragments of markup, concatenated to bodies with several candidates
Chunks ==
  { <<"\"", "A", "/", "7", "\"">>,
    <<"\"", "B", "/", "A", "7", "\"">>,
    <<"\"", "a", "/", "7", "\"">>,
    <<"\"", "A", "/", "\"">>,
    <<"\"", "A", "/", "7", "a", "\"">>,
    <<"A", "/", "7">>,
    <<"\"">>,
    <<"x", "=">> }

RECURSIVE ChunkTexts(_)
ChunkTexts(n) ==
  IF n = 0 THEN {<< >>}
  ELSE LET shorter == ChunkTexts(n - 1)
       IN  shorter \cup {t \o c : t \in shorter, c \in Chunks}

BoundedBodies ==
  TextsUpTo(BodyChars, MaxBodyLen) \cup ChunkTexts(MaxChunks)

\* response.content of the audio request
Payloads ==
  {<<73, 68, 51>>, << >>}

\* content of a file that is at the output path before the run
OldContent == <<0>>

\* the output directory: Depth segments "d", "dd", ...
OutputDir ==
  [i \in 1..Depth |-> [j \in 1..i |-> "d"]]

\* the filesystems a run can start in: the first k segments of the output
\* directory exist, and when all do, a file may be at path p already
InitialFilesystems(p) ==
  {[dirs |-> Ancestors(SubSeq(OutputDir, 1, k)), files |-> {}] : k \in 0..Depth}
    \cup {[dirs |-> Ancestors(OutputDir), files |-> {[path |-> p, data |-> OldContent]}]}

(* ------------------------------- state ---------------------------------- *)

VARIABLES
  query,          \* args.query
  output_dir,     \* args.output_dir, as a path
  pc,             \* the position of the run
  response_text,  \* response.text of the page request
  token,          \* token of main: the result of get_audio_token
  audio_url,      \* audio_url of download_audio
  filename,       \* filename of download_audio
  output_path,    \* output_path of download_audio
  content,        \* response.content of the audio request
  success,        \* success of main: "unset", "True" or "False"
  exit_code,      \* the exit status of the process, NoExit while it runs
  fs,             \* the filesystem: the directories and the files
  fs0,            \* the filesystem at the start of the run
  requests,       \* the URLs of the GET requests issued so far
  opens,          \* the number of files opened for writing so far
  out,            \* the messages printed so far
  env             \* what the network and the filesystem answered

vars ==
  <<query, output_dir, pc, response_text, token, audio_url, filename,
    output_path, content, success, exit_code, fs, fs0, requests, opens, out, env>>

NoExit == -1

\* nothing has answered yet
NoAnswers ==
  [page |-> "none", audio |-> "none", mkdir |-> "none", write |-> "none"]

\* the state right after parser.parse_args() returned
Init ==
  /\ query \in Queries
  /\ output_dir = OutputDir
  /\ pc = "get_token"
  /\ response_text = << >>
  /\ token = None
  /\ audio_url = << >>
  /\ filename = << >>
  /\ output_path = << >>
  /\ content = << >>
  /\ success = "unset"
  /\ exit_code = NoExit
  /\ fs \in InitialFilesystems(PathJoin(OutputDir, Filename(query)))
  /\ fs0 = fs
  /\ requests = << >>
  /\ opens = 0
  /\ out = << >>
  /\ env = NoAnswers

(* --------------------------- get_audio_token ---------------------------- *)

\* a page request that is issued again after a RequestException
PageGet_Retry ==
  /\ pc = "get_token"
  /\ requests' = Append(requests, PageUrl(query))
  /\ \/ \E body \in Bodies :
          /\ response_text' = body
          /\ env' = [env EXCEPT !.page = "ok"]
          /\ pc' = "search"
          /\ UNCHANGED <<token, out>>
     \/ \E e \in {"http_error", "transport_error"} :
          /\ env' = [env EXCEPT !.page = e]
          /\ out' = Append(out, "Error fetching page")
          /\ UNCHANGED <<token, pc, response_text>>
  /\ UNCHANGED <<query, output_dir, audio_url, filename, output_path, content,
                 success, exit_code, fs, fs0, opens>>

\* requests.get(url, timeout=10, headers=HEADERS) and raise_for_status():
\* a body, or a RequestException that the except clause turns into None
PageGet ==
  /\ pc = "get_token"
  /\ requests' = Append(requests, PageUrl(query))
  /\ \/ \E body \in Bodies :
          /\ response_text' = body
          /\ env' = [env EXCEPT !.page = "ok"]
          /\ pc' = "search"
          /\ UNCHANGED <<token, out>>
     \/ \E e \in {"http_error", "transport_error"} :
          /\ env' = [env EXCEPT !.page = e]
          /\ out' = Append(out, "Error fetching page")
          /\ token' = None
          /\ pc' = "check_token"
          /\ UNCHANGED response_text
  /\ UNCHANGED <<query, output_dir, audio_url, filename, output_path, content,
                 success, exit_code, fs, fs0, opens>>

\* re.search over response.text; the first match or None
SearchToken ==
  /\ pc = "search"
  /\ token' = ReSearch(response_text)
  /\ out' = IF token' = None THEN Append(out, "No audio token found") ELSE out
  /\ pc' = "check_token"
  /\ UNCHANGED <<query, output_dir, response_text, audio_url, filename,
                 output_path, content, success, exit_code, fs, fs0, requests,
                 opens, env>>

(* ------------------------------- main ----------------------------------- *)

\* a main without the check of the token
CheckToken_NoExit ==
  /\ pc = "check_token"
  /\ out' = Append(out, "Found audio token")
  /\ pc' = "download"
  /\ UNCHANGED <<query, output_dir, response_text, token, audio_url, filename,
                 output_path, content, success, exit_code, fs, fs0, requests,
                 opens, env>>

\* if not token: sys.exit(1)
CheckToken ==
  /\ pc = "check_token"
  /\ IF token = None
     THEN /\ exit_code' = 1
          /\ pc' = "exited"
          /\ out' = out
     ELSE /\ out' = Append(out, "Found audio token")
          /\ pc' = "download"
          /\ exit_code' = exit_code
  /\ UNCHANGED <<query, output_dir, response_text, token, audio_url, filename,
                 output_path, content, success, fs, fs0, requests, opens, env>>

\* a main without the check of the result of download_audio
CheckSuccess_NoExit ==
  /\ pc = "check_success"
  /\ exit_code' = 0
  /\ out' = Append(out, "Done!")
  /\ pc' = "exited"
  /\ UNCHANGED <<query, output_dir, response_text, token, audio_url, filename,
                 output_path, content, success, fs, fs0, requests, opens, env>>

\* if not success: sys.exit(1); otherwise main returns and the exit status is 0
CheckSuccess ==
  /\ pc = "check_success"
  /\ IF success # "True"
     THEN /\ exit_code' = 1
          /\ out' = out
     ELSE /\ exit_code' = 0
          /\ out' = Append(out, "Done!")
  /\ pc' = "exited"
  /\ UNCHANGED <<query, output_dir, response_text, token, audio_url, filename,
                 output_path, content, success, fs, fs0, requests, opens, env>>

(* ---------------------------- download_audio ---------------------------- *)

\* the audio URL, the file name and the output path, built before the try
BuildNames ==
  /\ pc = "download"
  /\ audio_url' = AudioUrl(token)
  /\ filename' = Filename(query)
  /\ output_path' = PathJoin(output_dir, filename')
  /\ pc' = "audio_get"
  /\ UNCHANGED <<query, output_dir, response_text, token, content, success,
                 exit_code, fs, fs0, requests, opens, out, env>>

\* an audio request without raise_for_status(): the body of an error
\* response is taken for the audio
AudioGet_Unchecked ==
  /\ pc = "audio_get"
  /\ requests' = Append(requests, audio_url)
  /\ \/ \E payload \in Payloads :
          /\ content' = payload
          /\ env' = [env EXCEPT !.audio = "ok"]
          /\ out' = Append(out, "Downloading audio")
          /\ pc' = "mkdir"
          /\ UNCHANGED success
     \/ /\ content' = <<52, 48, 52>>
        /\ env' = [env EXCEPT !.audio = "http_error"]
        /\ out' = Append(out, "Downloading audio")
        /\ pc' = "mkdir"
        /\ UNCHANGED success
     \/ /\ env' = [env EXCEPT !.audio = "transport_error"]
        /\ out' = out \o <<"Downloading audio", "Error downloading audio">>
        /\ success' = "False"
        /\ pc' = "check_success"
        /\ UNCHANGED content
  /\ UNCHANGED <<query, output_dir, response_text, token, audio_url, filename,
                 output_path, exit_code, fs, fs0, opens>>

\* requests.get(audio_url, timeout=30) and raise_for_status(): the payload, or
\* a RequestException that the except clause turns into False
AudioGet ==
  /\ pc = "audio_get"
  /\ requests' = Append(requests, audio_url)
  /\ \/ \E payload \in Payloads :
          /\ content' = payload
          /\ env' = [env EXCEPT !.audio = "ok"]
          /\ out' = Append(out, "Downloading audio")
          /\ pc' = "mkdir"
          /\ UNCHANGED success
     \/ \E e \in {"http_error", "transport_error"} :
          /\ env' = [env EXCEPT !.audio = e]
          /\ out' = out \o <<"Downloading audio", "Error downloading audio">>
          /\ success' = "False"
          /\ pc' = "check_success"
          /\ UNCHANGED content
  /\ UNCHANGED <<query, output_dir, response_text, token, audio_url, filename,
                 output_path, exit_code, fs, fs0, opens>>

\* an OSError is no RequestException: no except clause of download_audio or
\* of main catches it, the interpreter prints the traceback and exits with 1
UncaughtOSError ==
  /\ out' = Append(out, "Traceback")
  /\ exit_code' = 1
  /\ pc' = "exited"

\* output_path.parent.mkdir(parents=True, exist_ok=True): the missing
\* ancestors are made from the top down; making one of them may fail
MakeDirs ==
  /\ pc = "mkdir"
  /\ LET dir     == Parent(output_path)
         missing == {n \in 1..Len(dir) : SubSeq(dir, 1, n) \notin fs.dirs}
     IN  \/ /\ fs' = [fs EXCEPT !.dirs = @ \cup Ancestors(dir)]
            /\ env' = [env EXCEPT !.mkdir = "ok"]
            /\ pc' = "write"
            /\ UNCHANGED <<exit_code, out>>
         \/ \E n \in missing :
              /\ fs' = [fs EXCEPT !.dirs = @ \cup Ancestors(SubSeq(dir, 1, n - 1))]
              /\ env' = [env EXCEPT !.mkdir = "os_error"]
              /\ UncaughtOSError
  /\ UNCHANGED <<query, output_dir, response_text, token, audio_url, filename,
                 output_path, content, success, fs0, requests, opens>>

\* the files after a write in mode 'ab': the data goes after what was there
WithFile_Append(files, p, data) ==
  LET old == {f \in files : f.path = p}
  IN  {f \in files : f.path # p}
        \cup (IF old = {} THEN {[path |-> p, data |-> data]}
              ELSE {[path |-> p, data |-> f.data \o data] : f \in old})

\* the files once the file at path p holds data and nothing else
WithFile(files, p, data) ==
  {f \in files : f.path # p} \cup {[path |-> p, data |-> data]}

\* open(output_path, 'wb'), f.write(response.content) and the close: open
\* may fail and leave the file alone, and fails when the directory is not
\* there; once the file is open it is truncated, and the write may fail after
\* part of the content
WriteFile ==
  /\ pc = "write"
  /\ \/ /\ Parent(output_path) \in fs.dirs
        /\ fs' = [fs EXCEPT !.files = WithFile(@, output_path, content)]
        /\ opens' = opens + 1
        /\ env' = [env EXCEPT !.write = "ok"]
        /\ out' = Append(out, "Successfully saved")
        /\ success' = "True"
        /\ pc' = "check_success"
        /\ UNCHANGED exit_code
     \/ /\ env' = [env EXCEPT !.write = "os_error"]
        /\ UncaughtOSError
        /\ UNCHANGED <<fs, opens, success>>
     \/ \E n \in 0..Len(content) :
          /\ Parent(output_path) \in fs.dirs
          /\ n = 0 \/ n < Len(content)
          /\ fs' = [fs EXCEPT !.files = WithFile(@, output_path, SubSeq(content, 1, n))]
          /\ opens' = opens + 1
          /\ env' = [env EXCEPT !.write = "os_error"]
          /\ UncaughtOSError
          /\ UNCHANGED success
  /\ UNCHANGED <<query, output_dir, response_text, token, audio_url, filename,
                 output_path, content, fs0, requests>>

(* ---------------------------- specifications ---------------------------- *)

Next ==
  \/ PageGet
  \/ SearchToken
  \/ CheckToken
  \/ BuildNames
  \/ AudioGet
  \/ MakeDirs
  \/ WriteFile
  \/ CheckSuccess

\* one run of main
Spec == Init /\ [][Next]_vars

\* download_audio alone, for every bounded query: the state right after main
\* found a token in the page
InitFile ==
  /\ query \in BoundedQueries \cup Queries
  /\ output_dir = OutputDir
  /\ pc = "download"
  /\ response_text = BodyOneToken
  /\ token = ReSearch(BodyOneToken)
  /\ audio_url = << >>
  /\ filename = << >>
  /\ output_path = << >>
  /\ content = << >>
  /\ success = "unset"
  /\ exit_code = NoExit
  /\ fs = [dirs |-> Ancestors(OutputDir), files |-> {}]
  /\ fs0 = fs
  /\ requests = <<PageUrl(query)>>
  /\ opens = 0
  /\ out = <<"Found audio token">>
  /\ env = [NoAnswers EXCEPT !.page = "ok"]

NextFile ==
  BuildNames

SpecFile == InitFile /\ [][NextFile]_vars

\* the pattern search alone, for every bounded page body: the state right
\* after the page request succeeded
InitToken ==
  /\ query = <<"C", "a", "p", "r", "i", "c", "o", "r", "n">>
  /\ output_dir = OutputDir
  /\ pc = "search"
  /\ response_text \in BoundedBodies
  /\ token = None
  /\ audio_url = << >>
  /\ filename = << >>
  /\ output_path = << >>
  /\ content = << >>
  /\ success = "unset"
  /\ exit_code = NoExit
  /\ fs = [dirs |-> Ancestors(OutputDir), files |-> {}]
  /\ fs0 = fs
  /\ requests = <<PageUrl(query)>>
  /\ opens = 0
  /\ out = << >>
  /\ env = [NoAnswers EXCEPT !.page = "ok"]

NextToken ==
  SearchToken

SpecToken == InitToken /\ [][NextToken]_vars

(* ------------------------ vocabulary of the claims ---------------------- *)

\* s is a quoted token: a double quote, one uppercase letter, a slash, one
\* or more uppercase letters or digits, a double quote
IsQuotedToken(s) ==
  /\ Len(s) >= 5
  /\ s[1] = "\"" /\ s[Len(s)] = "\""
  /\ s[2] \in Upper
  /\ s[3] = "/"
  /\ \A k \in 4..(Len(s) - 1) : s[k] \in Upper \cup Digit

\* the places <<i, j>> of the quoted tokens of a body
Candidates(body) ==
  {c \in (1..Len(body)) \X (1..Len(body)) :
     c[1] < c[2] /\ IsQuotedToken(SubSeq(body, c[1], c[2]))}

\* the tokens of a body that no quoted token precedes
FirstTokens(body) ==
  {SubSeq(body, c[1] + 1, c[2] - 1) :
     c \in {c \in Candidates(body) : \A d \in Candidates(body) : c[1] <= d[1]}}

AudioHost == "https://audio.vocabulary.com/1.0/us/"

IsAudioRequest(u) ==
  u # << >> /\ u[1] = AudioHost

AudioRequests ==
  {i \in 1..Len(requests) : IsAudioRequest(requests[i])}

PageRequests ==
  {i \in 1..Len(requests) : ~ IsAudioRequest(requests[i])}

Printed(msg) ==
  \E i \in 1..Len(out) : out[i] = msg

TimesPrinted(msg) ==
  Cardinality({i \in 1..Len(out) : out[i] = msg})

TokenResolved ==
  env.page = "ok" /\ Candidates(response_text) # {}

DownloadSucceeded ==
  env.audio = "ok" /\ env.mkdir = "ok" /\ env.write = "ok"

\* the files at path p
FilesAt(files, p) ==
  {f \in files : f.path = p}

(* --------------------------------- C1 ----------------------------------- *)

NoTokenNoDownload ==
  /\ (pc = "exited" /\ ~ TokenResolved) =>
       /\ token = None
       /\ exit_code = 1
       /\ requests = <<PageUrl(query)>>
       /\ fs = fs0
       /\ opens = 0
       /\ out = IF env.page = "ok" THEN <<"No audio token found">>
                                   ELSE <<"Error fetching page">>
  /\ AudioRequests # {} =>
       /\ token # None
       /\ pc \in {"mkdir", "write", "check_success", "exited"}
       /\ Printed("Found audio token")

\* the page came back without a token and the run has exited
NoTokenNoDownloadWitness ==
  /\ pc = "exited"
  /\ env.page = "ok"
  /\ response_text = BodyNoToken
  /\ token = None
  /\ exit_code = 1

(* --------------------------------- C3 ----------------------------------- *)

\* C3: when the audio request fails (HTTP error status or transport),
\* download_audio returns False, the run exits with 1 and the filesystem is
\* as it was at the start; the filesystem changes only once the audio
\* response has been checked as successful.
AudioFailureLeavesNoFile ==
  /\ env.audio \in {"http_error", "transport_error"} =>
       /\ success = "False"
       /\ out[Len(out)] = "Error downloading audio"
       /\ fs = fs0
       /\ opens = 0
       /\ pc \in {"check_success", "exited"}
       /\ pc = "exited" => exit_code = 1
  /\ (fs # fs0 \/ opens > 0) => env.audio = "ok"

\* the audio host answered with an error status while a file of the name
\* was there, and the run has exited
AudioFailureWitness ==
  /\ pc = "exited"
  /\ env.audio = "http_error"
  /\ token # None
  /\ exit_code = 1
  /\ fs0.files # {}

(* --------------------------------- C4 ----------------------------------- *)

\* C4: when making the output directory or writing the file fails,
\* download_audio handles the failure itself: it prints a message and
\* returns False, and main exits with 1 as for the other failures.
FilesystemErrorHandled ==
  (pc = "exited" /\ "os_error" \in {env.mkdir, env.write}) =>
    /\ success = "False"
    /\ exit_code = 1
    /\ ~ Printed("Traceback")

(* --------------------------------- C5 ----------------------------------- *)

IsUnderscore(c) == c = "_"

\* kept by the first substitution: a word character, whitespace or a hyphen
IsKept(c) ==
  IsAlnum(c) \/ c \in {"_", " ", "\t", "-"}

IsRunChar(c) == c \in {" ", "\t", "-"}

\* s without its leading and trailing whitespace
Trimmed(s) ==
  LET inked == {i \in 1..Len(s) : s[i] \notin {" ", "\t"}}
  IN  IF inked = {} THEN << >>
      ELSE SubSeq(s, CHOOSE i \in inked : \A j \in inked : i <= j,
                     CHOOSE i \in inked : \A j \in inked : j <= i)

\* the number of maximal runs of hyphens and whitespace of s
Runs(s) ==
  Cardinality({i \in 1..Len(s) : IsRunChar(s[i]) /\ (i = 1 \/ ~ IsRunChar(s[i - 1]))})

\* the file name without its last four characters
Stem(name) ==
  SubSeq(name, 1, Len(name) - 4)

\* "cafe, mon ami!" with e acute
CafeQuery ==
  <<"c", "a", "f", "U+00E9", ",", " ", "m", "o", "n", " ", "a", "m", "i", "!">>

MachineLearningQuery ==
  <<"m", "a", "c", "h", "i", "n", "e", " ", "l", "e", "a", "r", "n", "i", "n", "g">>

IsAlnumOrSeparator(c) ==
  IsAlnum(c) \/ IsRunChar(c)

\* the stem the claim describes: of the trimmed query, every character that
\* is not alphanumeric, whitespace or hyphen is stripped (underscores
\* included), then the runs are collapsed
ClaimedStem(q) ==
  SubSeparators(SelectSeq(Trimmed(q), IsAlnumOrSeparator))

\* C5 as stated: the file name is the query with every character that is not
\* alphanumeric, whitespace or hyphen stripped -- underscores and letters
\* outside ASCII among them -- and every run of hyphens and whitespace
\* collapsed into one underscore; "cafe, mon ami!" with e acute gives the
\* stem cafe_mon_ami.
FilenameAsClaimed ==
  pc = "audio_get" =>
    /\ filename = ClaimedStem(query) \o <<".", "m", "p", "3">>
    /\ query = CafeQuery =>
         Stem(filename) = <<"c", "a", "f", "e", "_", "m", "o", "n", "_", "a", "m", "i">>

\* C5 as amended: the file name ends in .mp3 and before it has alphanumerics
\* (letters outside ASCII among them) and underscores only; the letters and
\* digits of the query are all kept, unchanged and in order; the underscores
\* of the query are kept, and each maximal run of hyphens and whitespace that
\* is left of the trimmed query once the other characters are stripped gives
\* exactly one more underscore; "machine learning" gives
\* machine_learning.mp3, "cafe, mon ami!" with e acute keeps the e acute.
FilenameSanitized ==
  pc = "audio_get" =>
    LET stem == Stem(filename)
        left == SelectSeq(Trimmed(query), IsKept)
    IN  /\ Len(filename) >= 4
        /\ SubSeq(filename, Len(filename) - 3, Len(filename)) = <<".", "m", "p", "3">>
        /\ \A i \in 1..Len(stem) : IsAlnum(stem[i]) \/ stem[i] = "_"
        /\ SelectSeq(stem, IsAlnum) = SelectSeq(query, IsAlnum)
        /\ Len(SelectSeq(stem, IsUnderscore))
             = Len(SelectSeq(query, IsUnderscore)) + Runs(left)
        /\ Len(stem) = Len(SelectSeq(left, IsWord)) + Runs(left)
        /\ query = MachineLearningQuery =>
             filename = <<"m", "a", "c", "h", "i", "n", "e", "_", "l", "e", "a",
                          "r", "n", "i", "n", "g", ".", "m", "p", "3">>
        /\ query = CafeQuery =>
             stem = <<"c", "a", "f", "U+00E9", "_", "m", "o", "n", "_", "a", "m", "i">>

\* the name of a query with an underscore, a run of two separators and a
\* letter outside ASCII has been derived
FilenameSanitizedWitness ==
  /\ pc = "audio_get"
  /\ query = <<"_", " ", "-", "U+00E9">>
  /\ filename = <<"_", "_", "U+00E9", ".", "m", "p", "3">>

(* --------------------------------- C6 ----------------------------------- *)

\* C6: get_audio_token returns the first quoted token of the body, however
\* many follow, and no token (with the message) exactly when the body has
\* no quoted token.
FirstMatchReturned ==
  pc = "check_token" /\ env.page = "ok" =>
    /\ (token = None) <=> (Candidates(response_text) = {})
    /\ token # None => token \in FirstTokens(response_text)
    /\ Cardinality(FirstTokens(response_text)) <= 1
    /\ Printed("No audio token found") <=> (Candidates(response_text) = {})

\* a body with two different quoted tokens has been searched
FirstMatchWitness ==
  /\ pc = "check_token"
  /\ Cardinality(Candidates(response_text)) >= 2
  /\ \E c \in Candidates(response_text) :
       SubSeq(response_text, c[1] + 1, c[2] - 1) # token
  /\ token \in FirstTokens(response_text)

(* --------------------------------- C7 ----------------------------------- *)

\* C7: after a run that exited with 0, the output directory and all its
\* ancestors exist, the directories and the other files of the start are
\* still there, and the file <output-dir>/<sanitized-query>.mp3 holds the
\* audio payload and nothing else, whatever was there before.
FileWrittenOnSuccess ==
  (pc = "exited" /\ exit_code = 0) =>
    LET target == Append(output_dir, Filename(query))
    IN  /\ Ancestors(output_dir) \subseteq fs.dirs
        /\ fs0.dirs \subseteq fs.dirs
        /\ FilesAt(fs.files, target) = {[path |-> target, data |-> content]}
        /\ {f \in fs.files : f.path # target} = {f \in fs0.files : f.path # target}
        /\ env.audio = "ok"

\* a successful run that started without the directories and fetched a
\* payload that is not empty
FileWrittenWitness ==
  /\ pc = "exited"
  /\ exit_code = 0
  /\ fs0.dirs = {<< >>}
  /\ content # << >>
  /\ [path |-> Append(output_dir, Filename(query)), data |-> content] \in fs.files

(* --------------------------------- C8 ----------------------------------- *)

\* C8: a run issues at most one page request and at most one audio request,
\* the page request first, and opens at most one file for writing, changing
\* no file but that one.
AtMostTwoRequestsOneFile ==
  /\ Len(requests) <= 2
  /\ Cardinality(PageRequests) <= 1
  /\ Cardinality(AudioRequests) <= 1
  /\ requests # << >> => ~ IsAudioRequest(requests[1])
  /\ opens <= 1
  /\ Cardinality({f.path : f \in (fs.files \ fs0.files) \cup (fs0.files \ fs.files)}) <= 1

\* a run has issued both requests and written the file
TwoRequestsOneFileWitness ==
  /\ pc = "exited"
  /\ Len(requests) = 2
  /\ opens = 1
  /\ fs.files # fs0.files

(* --------------------------------- C9 ----------------------------------- *)

\* C9: once get_audio_token has extracted a token, main keeps it unchanged,
\* calls download_audio once with it, and the one audio URL that is built and
\* requested is the audio host, the token as extracted, and .mp3.
TokenUsedOnce ==
  /\ token # None =>
       /\ token \in FirstTokens(response_text)
       /\ TimesPrinted("Found audio token") <= 1
       /\ TimesPrinted("Downloading audio") <= 1
  /\ audio_url # << >> =>
       /\ audio_url[1] = AudioHost
       /\ SubSeq(audio_url, 2, Len(audio_url) - 4) = token
       /\ SubSeq(audio_url, Len(audio_url) - 3, Len(audio_url)) = <<".", "m", "p", "3">>
  /\ \A i \in AudioRequests : requests[i] = audio_url /\ audio_url # << >>
  /\ (pc = "exited" /\ token # None) =>
       /\ Cardinality(AudioRequests) = 1
       /\ TimesPrinted("Downloading audio") = 1

\* a run with a token has exited after its audio request
TokenUsedOnceWitness ==
  /\ pc = "exited"
  /\ token = <<"C", "/", "B", "N", "U", "T", "8", "S", "5", "S", "2", "H", "D", "K">>
  /\ Cardinality(AudioRequests) = 1
  /\ response_text = BodyTwoTokens

(* --------------------------------- C10 ---------------------------------- *)

\* C10: the file name has no path separator and no dot but the one of its
\* .mp3 extension, so the output path is the output directory plus one
\* segment, the file name, and none of its segments is '..'.
FilenameStaysInOutputDir ==
  pc = "audio_get" =>
    /\ \A i \in 1..Len(filename) : filename[i] \notin {"/", "\\"}
    /\ {i \in 1..Len(filename) : filename[i] = "."} = {Len(filename) - 3}
    /\ output_path = Append(output_dir, filename)
    /\ Parent(output_path) = output_dir
    /\ \A i \in 1..Len(output_path) : output_path[i] # <<".", ".">>

\* the name of the query "../a" has been derived
FilenameStaysWitness ==
  /\ pc = "audio_get"
  /\ query = <<".", ".", "/", "a">>
  /\ output_path = Append(output_dir, <<"a", ".", "m", "p", "3">>)

====
